---- MODULE Spec2Model ----
(***************************************************************************)
(* Dino Ventures wallet service: the transfer engine of                    *)
(* src/src/services/walletService.js over the PostgreSQL tables of         *)
(* src/db/migrations/001_schema.sql, seeded by src/db/seed.sql, reached    *)
(* through the routes of src/src/routes/walletRoutes.js.                   *)
(*                                                                         *)
(* The committed database is the variables wallets, ledger_entries and     *)
(* idempotency_keys.  Every request runs executeTransfer in its own        *)
(* database transaction (READ COMMITTED): its writes are kept in txn[r]    *)
(* until COMMIT publishes them, row locks are held in lockedBy until       *)
(* COMMIT or ROLLBACK, and every await of the handler is one step.         *)
(***************************************************************************)
EXTENDS Integers, Sequences, FiniteSets, TLC

VARIABLES wallets, ledger_entries, idempotency_keys, lockedBy, pc, req, txn, resp, traffic,
          clients

vars == <<wallets, ledger_entries, idempotency_keys, lockedBy, pc, req, txn, resp, traffic,
          clients>>

\* the committed database
db == <<wallets, ledger_entries, idempotency_keys>>

(* ---------------- bounds and input sets ---------------- *)

\* request slots of the model
NumRequests == 3

\* requests issued when the request bodies range over every flow, owner and asset
ConcurrentRequests == 2

Requests == 1..NumRequests

\* max of the connection pool
pool_max == 20

\* The request bodies clients send (traffic is fixed by the initial state).
\* User 1 is the treasury, 2 is shivansh, 4 has no row in users; amounts 0 and -1
\* are rejected by the route, 1000 is shivansh's whole GOLD_COINS balance; keys are
\* the idempotency keys in the order clients first use them, keyless tells whether
\* bodies without idempotencyKey ("") are sent too; firstAmounts are amounts only the
\* first request may carry.
MixedTraffic ==
    [requests   |-> ConcurrentRequests,
     flows      |-> {"topup", "bonus", "spend"},
     userIds    |-> {1, 2, 4},
     assetCodes |-> {"GOLD_COINS", "DIAMONDS"},
     amounts    |-> {-1, 0, 200, 1000},
     firstAmounts |-> {},
     keys       |-> <<"k1", "k2">>,
     keyless    |-> TRUE,
     pool       |-> pool_max]

\* shivansh's DIAMONDS wallet (500) under retries and repeated spends
RetryTraffic ==
    [requests   |-> NumRequests,
     flows      |-> {"topup", "spend"},
     userIds    |-> {2},
     assetCodes |-> {"DIAMONDS"},
     amounts    |-> {0, 200, 1000},
     firstAmounts |-> {},
     keys       |-> <<"k1", "k2", "k3">>,
     keyless    |-> FALSE,
     pool       |-> pool_max]

\* a request that may move the whole treasury supply of an asset, and one more
SupplyTraffic ==
    [requests   |-> ConcurrentRequests,
     flows      |-> {"topup", "spend"},
     userIds    |-> {1, 2},
     assetCodes |-> {"GOLD_COINS"},
     amounts    |-> {0, 200},
     firstAmounts |-> {1000000000},
     keys       |-> <<"k1", "k2">>,
     keyless    |-> FALSE,
     pool       |-> pool_max]

(* ---------------- schema and seed ---------------- *)

SeedUserType == (1 :> "system") @@ (2 :> "user") @@ (3 :> "user")

SeedWallets ==
    (1 :> [user_id |-> 1, asset |-> "GOLD_COINS",     balance |-> 1000000000]) @@
    (2 :> [user_id |-> 1, asset |-> "DIAMONDS",       balance |-> 1000000000]) @@
    (3 :> [user_id |-> 1, asset |-> "LOYALTY_POINTS", balance |-> 1000000000]) @@
    (4 :> [user_id |-> 2, asset |-> "GOLD_COINS",     balance |-> 1000]) @@
    (5 :> [user_id |-> 2, asset |-> "DIAMONDS",       balance |-> 500]) @@
    (6 :> [user_id |-> 2, asset |-> "LOYALTY_POINTS", balance |-> 200]) @@
    (7 :> [user_id |-> 3, asset |-> "GOLD_COINS",     balance |-> 750]) @@
    (8 :> [user_id |-> 3, asset |-> "DIAMONDS",       balance |-> 300]) @@
    (9 :> [user_id |-> 3, asset |-> "LOYALTY_POINTS", balance |-> 150])

WalletIds == DOMAIN SeedWallets

(* ---------------- pure helpers ---------------- *)

Min(S) == CHOOSE x \in S : \A y \in S : x <= y

NoReq == [flow |-> "", userId |-> 0, assetCode |-> "", amount |-> 0, idempotencyKey |-> ""]

NoTxn ==
    [userWalletId |-> 0, treasuryWalletId |-> 0,
     sourceWalletId |-> 0, destWalletId |-> 0,
     lockedWallets |-> <<>>,
     newSourceBalance |-> 0, newDestBalance |-> 0,
     w_wallets |-> <<>>, w_ledger |-> <<>>, w_idem |-> {},
     err |-> ""]

\* the pool client of a request: pool.connect() calls that returned a client to it,
\* and its client.release() calls
NoClient == [connected |-> 0, released |-> 0]

NoResp == [status |-> 0, success |-> FALSE, idempotent |-> FALSE, data |-> <<>>, error |-> ""]

\* the route does not ask for an idempotencyKey
validateTransactionBody_keyOptional(body) ==
    IF body.userId = 0 \/ body.assetCode = "" \/ body.amount = 0 THEN "MissingFields"
    ELSE IF body.amount <= 0 THEN "BadAmount"
    ELSE ""

\* validateTransactionBody: the error it answers with, "" when the body passes
validateTransactionBody(body) ==
    IF body.userId = 0 \/ body.assetCode = "" \/ body.amount = 0 THEN "MissingFields"
    ELSE IF body.amount <= 0 THEN "BadAmount"
    ELSE IF body.idempotencyKey = "" THEN "MissingKey"
    ELSE ""

\* rows of resolveWalletId's SELECT
resolveWalletId(w, userId, assetCode) ==
    {id \in DOMAIN w : w[id].user_id = userId /\ w[id].asset = assetCode}

\* the treasury lookup does not filter by asset
resolveTreasuryWalletId_anyAsset(w, assetCode) ==
    {id \in DOMAIN w : /\ w[id].user_id \in DOMAIN SeedUserType
                       /\ SeedUserType[w[id].user_id] = "system"}

\* rows of resolveTreasuryWalletId's SELECT
resolveTreasuryWalletId(w, assetCode) ==
    {id \in DOMAIN w : /\ w[id].user_id \in DOMAIN SeedUserType
                       /\ SeedUserType[w[id].user_id] = "system"
                       /\ w[id].asset = assetCode}

\* direction of a flow
sourceWalletId(flow, userWalletId, treasuryWalletId) ==
    IF flow = "topup" THEN treasuryWalletId
    ELSE IF flow = "bonus" THEN treasuryWalletId
    ELSE userWalletId

destWalletId(flow, userWalletId, treasuryWalletId) ==
    IF flow = "topup" THEN userWalletId
    ELSE IF flow = "bonus" THEN userWalletId
    ELSE treasuryWalletId

\* the description template of a flow, with the values it interpolates
description(r) ==
    IF r.flow = "topup" THEN <<"Top-up", r.amount, r.assetCode, "purchased by user", r.userId>>
    ELSE IF r.flow = "bonus" THEN <<"Bonus", r.amount, r.assetCode, "granted to user", r.userId>>
    ELSE <<"Spend", r.amount, r.assetCode, "spent by user", r.userId>>

\* uuidv4(): a fresh identifier for every call; a request makes at most one
uuidv4(r) == r

\* statusCode of an error as errorHandler answers it (err.statusCode || 500)
statusCode(err) ==
    IF err = "WalletNotFound" THEN 404
    ELSE IF err = "WalletsNotFound" THEN 404
    ELSE IF err = "InsufficientBalance" THEN 400
    ELSE 500

errorHandler(err) ==
    [status |-> statusCode(err), success |-> FALSE, idempotent |-> FALSE,
     data |-> <<>>, error |-> err]

\* the idempotencyKey values a new request may carry: a key some request already
\* carries, or the next key no request has used yet (keys are opaque tokens)
clientKeys ==
    LET used == {req[o].idempotencyKey : o \in Requests} \ {""}
        n == Cardinality(used) + 1
    IN  {traffic.keys[i] : i \in {j \in DOMAIN traffic.keys : j <= n}}
          \cup (IF traffic.keyless THEN {""} ELSE {})

\* the amounts request r may carry
clientAmounts(r) == traffic.amounts \cup (IF r = 1 THEN traffic.firstAmounts ELSE {})

\* connections of the pool in use by executeTransfer calls
inUse == Cardinality({r \in Requests : clients[r].connected > clients[r].released})

(* ---------------- initial state ---------------- *)

Deployed ==
    /\ wallets = SeedWallets
    /\ ledger_entries = <<>>
    /\ idempotency_keys = {}
    /\ lockedBy = [w \in WalletIds |-> 0]
    /\ pc = [r \in Requests |-> "init"]
    /\ req = [r \in Requests |-> NoReq]
    /\ txn = [r \in Requests |-> NoTxn]
    /\ resp = [r \in Requests |-> NoResp]
    /\ clients = [r \in Requests |-> NoClient]

Init == Deployed /\ traffic = MixedTraffic

InitRetry == Deployed /\ traffic = RetryTraffic

InitSupply == Deployed /\ traffic = SupplyTraffic

(* ---------------- the stored response body ---------------- *)

\* responseBody of executeTransfer, from the request and the transaction's locals
responseBody(r) ==
    [transactionId    |-> uuidv4(r),
     sourceWalletId   |-> txn[r].sourceWalletId,
     destWalletId     |-> txn[r].destWalletId,
     amount           |-> req[r].amount,
     newSourceBalance |-> txn[r].newSourceBalance,
     newDestBalance   |-> txn[r].newDestBalance,
     description      |-> description(req[r])]

\* the serialisation loses the description member
JSON_stringify_dropsDescription(b) ==
    << <<"transactionId", b.transactionId>>,
       <<"sourceWalletId", b.sourceWalletId>>,
       <<"destWalletId", b.destWalletId>>,
       <<"amount", b.amount>>,
       <<"newSourceBalance", b.newSourceBalance>>,
       <<"newDestBalance", b.newDestBalance>> >>

\* JSON.stringify of a response body: its members in property order
JSON_stringify(b) ==
    << <<"transactionId", b.transactionId>>,
       <<"sourceWalletId", b.sourceWalletId>>,
       <<"destWalletId", b.destWalletId>>,
       <<"amount", b.amount>>,
       <<"newSourceBalance", b.newSourceBalance>>,
       <<"newDestBalance", b.newDestBalance>>,
       <<"description", b.description>> >>

\* the JSONB value PostgreSQL stores for a JSON text: an unordered set of members
to_jsonb(text) == {text[i] : i \in DOMAIN text}

\* the object node-postgres hands back for a JSONB column
jsonb_parse(j) == [k \in {m[1] : m \in j} |-> (CHOOSE m \in j : m[1] = k)[2]]

\* the row of idempotency_keys written by step 6
idempotencyRow(r) ==
    [key |-> req[r].idempotencyKey, response_code |-> 200,
     response_body |-> to_jsonb(JSON_stringify(responseBody(r)))]

(* ---------------- database primitives ---------------- *)

\* the ids of [sourceWalletId, destWalletId].sort((a, b) => a - b)
walletIds(src, dst) == IF src <= dst THEN <<src, dst>> ELSE <<dst, src>>

\* SELECT ... WHERE id = ANY($1) ORDER BY id FOR UPDATE: the next row to lock
nextRowToLock(w, ids, locked) ==
    LET want == {ids[i] : i \in DOMAIN ids} \cap DOMAIN w
        rest == want \ DOMAIN locked
    IN  IF rest = {} THEN 0 ELSE Min(rest)

\* the wallets are locked by two statements, the source row and then the destination
lockOrder_sourceFirst(w, src, dst) ==
    IF src = dst THEN <<src>> ELSE <<src, dst>>

\* lines 103-108: the rows of the sorted id array in the order the one
\* SELECT ... ORDER BY id FOR UPDATE locks them
lockOrder(w, src, dst) ==
    LET ids == walletIds(src, dst)
        first == nextRowToLock(w, ids, <<>>)
        second == IF first = 0 THEN 0 ELSE nextRowToLock(w, ids, (first :> 0))
    IN  IF first = 0 THEN <<>>
        ELSE IF second = 0 THEN <<first>> ELSE <<first, second>>

\* the first row of the lock order that the transaction does not hold yet, 0 if none
rowWanted(order, locked) ==
    LET rest == {i \in DOMAIN order : order[i] \notin DOMAIN locked}
    IN  IF rest = {} THEN 0 ELSE order[Min(rest)]

\* FOR UPDATE is missing: the SELECT never waits for a row
lockGranted_always(holder, r) == TRUE

\* a row lock is granted when no other transaction holds the row
lockGranted(holder, r) == holder = 0 \/ holder = r

\* the balance FOR UPDATE returns once the lock is held: the latest committed one
lockedBalance(w, id) == w[id].balance

\* the check compares the balance with zero and forgets the amount
insufficientBalance_ignoresAmount(sourceBalance, transferAmount) == sourceBalance < 0

\* step 3: sourceBalance < transferAmount
insufficientBalance(sourceBalance, transferAmount) == sourceBalance < transferAmount

\* the UPDATE has no WHERE id = $2: it sets the balance of every wallet
updateBalance_noWhere(writes, id, balance) == [w \in WalletIds |-> balance]

\* UPDATE wallets SET balance = $1 WHERE id = $2, inside the transaction
updateBalance(writes, id, balance) == (id :> balance) @@ writes

\* COMMIT of the wallet rows a transaction has updated
commitWallets(w, writes) ==
    [id \in DOMAIN w |->
        IF id \in DOMAIN writes THEN [w[id] EXCEPT !.balance = writes[id]] ELSE w[id]]

\* the CREDIT insert passes newDestBalance where the amount belongs
ledgerRow_creditAmountSlip(r, wallet, entry_type, balance_after) ==
    [transaction_id |-> uuidv4(r), wallet_id |-> wallet, entry_type |-> entry_type,
     amount |-> IF entry_type = "CREDIT" THEN balance_after ELSE req[r].amount,
     balance_after |-> balance_after,
     description |-> description(req[r])]

\* INSERT INTO ledger_entries
ledgerRow(r, wallet, entry_type, balance_after) ==
    [transaction_id |-> uuidv4(r), wallet_id |-> wallet, entry_type |-> entry_type,
     amount |-> req[r].amount, balance_after |-> balance_after,
     description |-> description(req[r])]

\* the lookup also asks for the owner of the request, which no stored row has
keyCommitted_alsoByOwner(rows, key) == FALSE

\* idempotency_keys.key is the PRIMARY KEY: a committed row with the key rejects the
\* insert, a row inserted by a transaction still open makes the insert wait
keyCommitted(rows, key) == \E row \in rows : row.key = key

\* the key column has no unique constraint
primaryKeyViolation_none(rows, key) == FALSE

\* the PRIMARY KEY of idempotency_keys rejects a second row with a committed key
primaryKeyViolation(rows, key) == \E row \in rows : row.key = key

\* the insert does not wait for an uncommitted row with the same key
keyPending_noWait(r, key) == FALSE

keyPending(r, key) ==
    \E o \in Requests \ {r} : \E row \in txn[o].w_idem : row.key = key

\* release of the row locks of a transaction at COMMIT or ROLLBACK
\* release() is called at the end of the try and of the catch block: a ROLLBACK
\* that throws skips it
client_release_notInFinally(c, r, exit) ==
    IF exit = "rollbackFails" THEN c ELSE [c EXCEPT ![r].released = @ + 1]

\* finally { client.release() }: on every exit of the try and of the catch block
client_release(c, r, exit) == [c EXCEPT ![r].released = @ + 1]

\* the catch block issues no ROLLBACK: the transaction of a failed transfer stays
\* open on the pooled connection and keeps its row locks
releaseLocks_notAfterThrow(r) ==
    IF txn[r].err # "" THEN lockedBy
    ELSE [w \in WalletIds |-> IF lockedBy[w] = r THEN 0 ELSE lockedBy[w]]

\* COMMIT and ROLLBACK release the row locks of the transaction
releaseLocks(r) == [w \in WalletIds |-> IF lockedBy[w] = r THEN 0 ELSE lockedBy[w]]

\* no BEGIN is issued: every statement commits by itself
inTransactionBlock_missing == FALSE

\* BEGIN: the statements of executeTransfer run in one transaction block
inTransactionBlock == TRUE

\* the CHECK (balance >= 0) of wallets
balance_check(balance) == balance >= 0

(* ---------------- the request handler, step by step ---------------- *)

\* a step of request r that changes only its own position and locals
Local(r, newpc, newtxn) ==
    /\ pc' = [pc EXCEPT ![r] = newpc]
    /\ txn' = [txn EXCEPT ![r] = newtxn]
    /\ UNCHANGED <<wallets, ledger_entries, idempotency_keys, lockedBy, req, resp, traffic, clients>>

\* a writing statement of request r: inside the transaction block its rows stay
\* private to the transaction, outside one every statement commits by itself
Write(r, newpc, newtxn) ==
    IF inTransactionBlock THEN Local(r, newpc, newtxn)
    ELSE /\ wallets' = commitWallets(wallets, newtxn.w_wallets)
         /\ ledger_entries' = ledger_entries \o newtxn.w_ledger
         /\ idempotency_keys' = idempotency_keys \cup newtxn.w_idem
         /\ pc' = [pc EXCEPT ![r] = newpc]
         /\ txn' = [txn EXCEPT ![r] =
                [newtxn EXCEPT !.w_wallets = <<>>, !.w_ledger = <<>>, !.w_idem = {}]]
         /\ UNCHANGED <<lockedBy, req, resp, traffic, clients>>

\* a throw inside the try block: control goes to the catch block, the row locks and
\* the uncommitted rows stay until its ROLLBACK
Throw(r, err) == Local(r, "rollback", [txn[r] EXCEPT !.err = err])

\* POST /topup, /bonus, /spend rejected by validateTransactionBody
RequestRejected(r) ==
    /\ pc[r] = "init"
    /\ r <= traffic.requests
    /\ \A o \in Requests : o < r => pc[o] # "init"
    /\ \E flow \in traffic.flows, userId \in traffic.userIds,
          assetCode \in traffic.assetCodes, amount \in clientAmounts(r),
          key \in clientKeys :
        LET body == [flow |-> flow, userId |-> userId, assetCode |-> assetCode,
                     amount |-> amount, idempotencyKey |-> key]
        IN  /\ validateTransactionBody(body) # ""
            /\ resp' = [resp EXCEPT ![r] =
                   [status |-> 400, success |-> FALSE, idempotent |-> FALSE,
                    data |-> <<>>, error |-> validateTransactionBody(body)]]
            /\ pc' = [pc EXCEPT ![r] = "done"]
    /\ UNCHANGED <<wallets, ledger_entries, idempotency_keys, lockedBy, req, txn, traffic, clients>>

\* POST /topup, /bonus, /spend accepted: pool.connect() and BEGIN
Request(r) ==
    /\ pc[r] = "init"
    /\ r <= traffic.requests
    /\ \A o \in Requests : o < r => pc[o] # "init"
    /\ inUse < traffic.pool
    /\ \E flow \in traffic.flows, userId \in traffic.userIds,
          assetCode \in traffic.assetCodes, amount \in clientAmounts(r),
          key \in clientKeys :
        LET body == [flow |-> flow, userId |-> userId, assetCode |-> assetCode,
                     amount |-> amount, idempotencyKey |-> key]
        IN  /\ validateTransactionBody(body) = ""
            /\ req' = [req EXCEPT ![r] = body]
            /\ pc' = [pc EXCEPT ![r] = "idem"]
    /\ clients' = [clients EXCEPT ![r].connected = @ + 1]
    /\ UNCHANGED <<wallets, ledger_entries, idempotency_keys, lockedBy, txn, resp, traffic>>

\* step 1, key found: COMMIT and return the stored response (route status 200)
IdempotentReplay(r) ==
    /\ pc[r] = "idem"
    /\ req[r].idempotencyKey # ""
    /\ \E row \in idempotency_keys :
        /\ row.key = req[r].idempotencyKey
        /\ resp' = [resp EXCEPT ![r] =
               [status |-> 200, success |-> TRUE, idempotent |-> TRUE,
                data |-> <<jsonb_parse(row.response_body)>>, error |-> ""]]
    /\ pc' = [pc EXCEPT ![r] = "done"]
    /\ txn' = [txn EXCEPT ![r] = NoTxn]
    /\ clients' = client_release(clients, r, "replay")
    /\ UNCHANGED <<wallets, ledger_entries, idempotency_keys, lockedBy, req, traffic>>

\* step 1, key not found
IdempotencyCheck(r) ==
    /\ pc[r] = "idem"
    /\ ~ (req[r].idempotencyKey # "" /\ keyCommitted(idempotency_keys, req[r].idempotencyKey))
    /\ Local(r, "resolveUser", txn[r])

ResolveWallet(r) ==
    /\ pc[r] = "resolveUser"
    /\ LET rows == resolveWalletId(wallets, req[r].userId, req[r].assetCode)
       IN  IF rows = {} THEN Throw(r, "WalletNotFound")
           ELSE \E id \in rows :
                  Local(r, "resolveTreasury", [txn[r] EXCEPT !.userWalletId = id])

ResolveTreasury(r) ==
    /\ pc[r] = "resolveTreasury"
    /\ LET rows == resolveTreasuryWalletId(wallets, req[r].assetCode)
       IN  IF rows = {} THEN Throw(r, "TreasuryMissing")
           ELSE \E id \in rows :
                  Local(r, "lock",
                        [txn[r] EXCEPT
                           !.treasuryWalletId = id,
                           !.sourceWalletId = sourceWalletId(req[r].flow, txn[r].userWalletId, id),
                           !.destWalletId = destWalletId(req[r].flow, txn[r].userWalletId, id)])

\* step 2: one row of the SELECT ... FOR UPDATE is locked and read
LockRow(r) ==
    /\ pc[r] = "lock"
    /\ LET order == lockOrder(wallets, txn[r].sourceWalletId, txn[r].destWalletId)
           w == rowWanted(order, txn[r].lockedWallets)
           locked == (w :> lockedBalance(wallets, w)) @@ txn[r].lockedWallets
       IN  /\ w # 0
           /\ lockGranted(lockedBy[w], r)
           /\ lockedBy' = [lockedBy EXCEPT ![w] = r]
           /\ txn' = [txn EXCEPT ![r].lockedWallets = locked]
           /\ pc' = [pc EXCEPT ![r] =
                  IF rowWanted(order, locked) = 0 THEN "check" ELSE "lock"]
    /\ UNCHANGED <<wallets, ledger_entries, idempotency_keys, req, resp, traffic, clients>>

\* lines 110-133: find the locked rows, step 3, and the new balances of step 4
CheckBalance(r) ==
    /\ pc[r] = "check"
    /\ LET t == txn[r]
       IN  IF t.sourceWalletId \notin DOMAIN t.lockedWallets
              \/ t.destWalletId \notin DOMAIN t.lockedWallets
           THEN Throw(r, "WalletsNotFound")
           ELSE IF insufficientBalance(t.lockedWallets[t.sourceWalletId], req[r].amount)
           THEN Throw(r, "InsufficientBalance")
           ELSE Local(r, "updateSource",
                      [t EXCEPT
                         !.newSourceBalance = t.lockedWallets[t.sourceWalletId] - req[r].amount,
                         !.newDestBalance = t.lockedWallets[t.destWalletId] + req[r].amount])

UpdateSource(r) ==
    /\ pc[r] = "updateSource"
    /\ Write(r, "updateDest",
             [txn[r] EXCEPT !.w_wallets =
                 updateBalance(@, txn[r].sourceWalletId, txn[r].newSourceBalance)])

UpdateDest(r) ==
    /\ pc[r] = "updateDest"
    /\ Write(r, "insertDebit",
             [txn[r] EXCEPT !.w_wallets =
                 updateBalance(@, txn[r].destWalletId, txn[r].newDestBalance)])

\* the DEBIT row is inserted right after the source update, and the destination
\* update is left out
InsertDebit_beforeDestUpdate(r) ==
    /\ pc[r] \in {"updateDest", "insertDebit"}
    /\ Write(r, "insertCredit",
             [txn[r] EXCEPT !.w_ledger =
                 Append(@, ledgerRow(r, txn[r].sourceWalletId, "DEBIT", txn[r].newSourceBalance))])

InsertDebit(r) ==
    /\ pc[r] = "insertDebit"
    /\ Write(r, "insertCredit",
             [txn[r] EXCEPT !.w_ledger =
                 Append(@, ledgerRow(r, txn[r].sourceWalletId, "DEBIT", txn[r].newSourceBalance))])

InsertCredit(r) ==
    /\ pc[r] = "insertCredit"
    /\ Write(r, "insertKey",
             [txn[r] EXCEPT !.w_ledger =
                 Append(@, ledgerRow(r, txn[r].destWalletId, "CREDIT", txn[r].newDestBalance))])

\* step 6: INSERT INTO idempotency_keys
InsertIdempotencyKey(r) ==
    /\ pc[r] = "insertKey"
    /\ IF req[r].idempotencyKey = "" THEN Local(r, "commit", txn[r])
       ELSE IF primaryKeyViolation(idempotency_keys, req[r].idempotencyKey)
       THEN Throw(r, "UniqueViolation")
       ELSE /\ ~ keyPending(r, req[r].idempotencyKey)
            /\ Write(r, "commit", [txn[r] EXCEPT !.w_idem = {idempotencyRow(r)}])

\* COMMIT, the return of executeTransfer, client.release() and the route's 201
Commit(r) ==
    /\ pc[r] = "commit"
    /\ wallets' = commitWallets(wallets, txn[r].w_wallets)
    /\ ledger_entries' = ledger_entries \o txn[r].w_ledger
    /\ idempotency_keys' = idempotency_keys \cup txn[r].w_idem
    /\ lockedBy' = releaseLocks(r)
    /\ resp' = [resp EXCEPT ![r] =
           [status |-> 201, success |-> TRUE, idempotent |-> FALSE,
            data |-> <<responseBody(r)>>, error |-> ""]]
    /\ pc' = [pc EXCEPT ![r] = "done"]
    /\ txn' = [txn EXCEPT ![r] = NoTxn]
    /\ clients' = client_release(clients, r, "commit")
    /\ UNCHANGED <<req, traffic>>

\* a writing statement of steps 4 to 6 is answered with an error by the store
StoreFailure(r) ==
    /\ pc[r] \in {"updateSource", "updateDest", "insertDebit", "insertCredit", "insertKey"}
    /\ Throw(r, "StoreFailure")

\* the error handler stores the failed outcome under the idempotency key
Rollback_cachesFailure(r) ==
    /\ pc[r] = "rollback"
    /\ lockedBy' = releaseLocks(r)
    /\ resp' = [resp EXCEPT ![r] = errorHandler(txn[r].err)]
    /\ pc' = [pc EXCEPT ![r] = "done"]
    /\ txn' = [txn EXCEPT ![r] = NoTxn]
    /\ clients' = client_release(clients, r, "rollback")
    /\ idempotency_keys' =
          IF keyCommitted(idempotency_keys, req[r].idempotencyKey) THEN idempotency_keys
          ELSE idempotency_keys \cup {idempotencyRow(r)}
    /\ UNCHANGED <<wallets, ledger_entries, req, traffic>>

\* catch: ROLLBACK, rethrow; finally: client.release(); errorHandler answers
Rollback(r) ==
    /\ pc[r] = "rollback"
    /\ lockedBy' = releaseLocks(r)
    /\ resp' = [resp EXCEPT ![r] = errorHandler(txn[r].err)]
    /\ pc' = [pc EXCEPT ![r] = "done"]
    /\ txn' = [txn EXCEPT ![r] = NoTxn]
    /\ clients' = client_release(clients, r, "rollback")
    /\ UNCHANGED <<wallets, ledger_entries, idempotency_keys, req, traffic>>

\* catch: the ROLLBACK query itself throws (connection lost; the server aborts the
\* transaction when the session ends), and that error is the one that propagates
RollbackFails(r) ==
    /\ pc[r] = "rollback"
    /\ lockedBy' = releaseLocks(r)
    /\ resp' = [resp EXCEPT ![r] = errorHandler("StoreFailure")]
    /\ pc' = [pc EXCEPT ![r] = "done"]
    /\ txn' = [txn EXCEPT ![r] = NoTxn]
    /\ clients' = client_release(clients, r, "rollbackFails")
    /\ UNCHANGED <<wallets, ledger_entries, idempotency_keys, req, traffic>>

Next ==
    \E r \in Requests :
        \/ RequestRejected(r)
        \/ Request(r)
        \/ IdempotentReplay(r)
        \/ IdempotencyCheck(r)
        \/ ResolveWallet(r)
        \/ ResolveTreasury(r)
        \/ LockRow(r)
        \/ CheckBalance(r)
        \/ UpdateSource(r)
        \/ UpdateDest(r)
        \/ InsertDebit(r)
        \/ InsertCredit(r)
        \/ InsertIdempotencyKey(r)
        \/ Commit(r)
        \/ StoreFailure(r)
        \/ Rollback(r)
        \/ RollbackFails(r)

Spec == Init /\ [][Next]_vars

SpecRetry == InitRetry /\ [][Next]_vars

SpecSupply == InitSupply /\ [][Next]_vars

(* ---------------- the read routes ---------------- *)

\* shivansh's GOLD_COINS wallet (1000) read while transfers on it are in flight
ReadTraffic ==
    [requests   |-> NumRequests,
     flows      |-> {"topup", "spend"},
     userIds    |-> {2},
     assetCodes |-> {"GOLD_COINS"},
     amounts    |-> {0, 200},
     firstAmounts |-> {},
     keys       |-> <<"k1", "k2", "k3">>,
     keyless    |-> FALSE,
     pool       |-> pool_max]

InitReads == Deployed /\ traffic = ReadTraffic

\* limit = 20 of getTransactions and of the route
default_limit == 20

\* the statement sees the rows open transactions have written
readCommitted_dirty ==
    LET open == {r \in Requests : pc[r] \notin {"init", "done"}}
        written(id) == {txn[r].w_wallets[id] : r \in {o \in open : id \in DOMAIN txn[o].w_wallets}}
    IN  [wallets |-> [id \in DOMAIN wallets |->
                        IF written(id) = {} THEN wallets[id]
                        ELSE [wallets[id] EXCEPT !.balance = CHOOSE b \in written(id) : TRUE]],
         ledger_entries |-> {ledger_entries[i] : i \in DOMAIN ledger_entries}
                              \cup UNION {{txn[r].w_ledger[i] : i \in DOMAIN txn[r].w_ledger} : r \in open}]

\* what a statement sent with pool.query sees: the rows committed when it runs
readCommitted ==
    [wallets |-> wallets,
     ledger_entries |-> {ledger_entries[i] : i \in DOMAIN ledger_entries}]

\* rows of getBalance's SELECT (asset_name is not modelled)
getBalance(seen, userId, assetCode) ==
    {[balance |-> seen.wallets[id].balance, asset_code |-> seen.wallets[id].asset] :
        id \in {w \in DOMAIN seen.wallets : /\ seen.wallets[w].user_id = userId
                                            /\ seen.wallets[w].asset = assetCode}}

\* rows of getAllBalances' SELECT (their ORDER BY a.code is not modelled)
getAllBalances(seen, userId) ==
    {[balance |-> seen.wallets[id].balance, asset_code |-> seen.wallets[id].asset] :
        id \in {w \in DOMAIN seen.wallets : seen.wallets[w].user_id = userId}}

\* rows of getTransactions' SELECT before LIMIT and OFFSET (created_at is not modelled)
ledgerOf(seen, userId, assetCode) ==
    {[transaction_id |-> le.transaction_id, entry_type |-> le.entry_type,
      amount |-> le.amount, balance_after |-> le.balance_after,
      description |-> le.description, asset_code |-> seen.wallets[le.wallet_id].asset] :
        le \in {e \in seen.ledger_entries :
                  /\ seen.wallets[e.wallet_id].user_id = userId
                  /\ assetCode # "" => seen.wallets[e.wallet_id].asset = assetCode}}

\* the pages getTransactions may return: limit rows after offset rows of the sorted
\* result; rows of one transaction share created_at, so any such rows qualify
getTransactions(seen, userId, assetCode, limit, offset) ==
    LET rows == ledgerOf(seen, userId, assetCode)
        left == IF Cardinality(rows) > offset THEN Cardinality(rows) - offset ELSE 0
    IN  {page \in SUBSET rows : Cardinality(page) = Min({limit, left})}

\* GET /api/wallets/:userId/balance, with or without ?assetCode
GetBalance(r) ==
    /\ pc[r] = "init"
    /\ r <= traffic.requests
    /\ \A o \in Requests : o < r => pc[o] # "init"
    /\ inUse < traffic.pool
    /\ \E userId \in traffic.userIds, assetCode \in traffic.assetCodes \cup {""} :
        LET rows == getBalance(readCommitted, userId, assetCode)
        IN  /\ req' = [req EXCEPT ![r] =
                   [flow |-> "balance", userId |-> userId, assetCode |-> assetCode,
                    amount |-> 0, idempotencyKey |-> ""]]
            /\ IF assetCode = ""
               THEN resp' = [resp EXCEPT ![r] =
                        [status |-> 200, success |-> TRUE, idempotent |-> FALSE,
                         data |-> <<getAllBalances(readCommitted, userId)>>, error |-> ""]]
               ELSE IF rows = {}
               THEN resp' = [resp EXCEPT ![r] = errorHandler("WalletNotFound")]
               ELSE \E row \in rows :
                      resp' = [resp EXCEPT ![r] =
                        [status |-> 200, success |-> TRUE, idempotent |-> FALSE,
                         data |-> <<row>>, error |-> ""]]
    /\ pc' = [pc EXCEPT ![r] = "done"]
    /\ UNCHANGED <<wallets, ledger_entries, idempotency_keys, lockedBy, txn, traffic, clients>>

\* GET /api/wallets/:userId/transactions, with the default limit and offset
GetTransactions(r) ==
    /\ pc[r] = "init"
    /\ r <= traffic.requests
    /\ \A o \in Requests : o < r => pc[o] # "init"
    /\ inUse < traffic.pool
    /\ \E userId \in traffic.userIds, assetCode \in traffic.assetCodes \cup {""} :
        /\ req' = [req EXCEPT ![r] =
               [flow |-> "transactions", userId |-> userId, assetCode |-> assetCode,
                amount |-> 0, idempotencyKey |-> ""]]
        /\ \E page \in getTransactions(readCommitted, userId, assetCode, default_limit, 0) :
              resp' = [resp EXCEPT ![r] =
                  [status |-> 200, success |-> TRUE, idempotent |-> FALSE,
                   data |-> <<page>>, error |-> ""]]
    /\ pc' = [pc EXCEPT ![r] = "done"]
    /\ UNCHANGED <<wallets, ledger_entries, idempotency_keys, lockedBy, txn, traffic, clients>>

\* transfers and reads
NextReads ==
    \/ Next
    \/ \E r \in Requests : GetBalance(r) \/ GetTransactions(r)

SpecReads == InitReads /\ [][NextReads]_vars

(* ---------------- a deployment without a treasury wallet ---------------- *)

\* a database whose LOYALTY_POINTS asset has no system-owned wallet: the
\* misconfiguration resolveTreasuryWalletId answers with status 500
UnfundedWallets == [id \in WalletIds \ {3} |-> SeedWallets[id]]

\* requests of shivansh and of an unknown user on the unfunded and on a funded asset
UnfundedTraffic ==
    [requests   |-> ConcurrentRequests,
     flows      |-> {"topup", "spend"},
     userIds    |-> {2, 4},
     assetCodes |-> {"LOYALTY_POINTS", "GOLD_COINS"},
     amounts    |-> {0, 200},
     firstAmounts |-> {},
     keys       |-> <<"k1", "k2">>,
     keyless    |-> FALSE,
     pool       |-> pool_max]

InitUnfunded ==
    /\ wallets = UnfundedWallets
    /\ ledger_entries = <<>>
    /\ idempotency_keys = {}
    /\ lockedBy = [w \in WalletIds |-> 0]
    /\ pc = [r \in Requests |-> "init"]
    /\ req = [r \in Requests |-> NoReq]
    /\ txn = [r \in Requests |-> NoTxn]
    /\ resp = [r \in Requests |-> NoResp]
    /\ clients = [r \in Requests |-> NoClient]
    /\ traffic = UnfundedTraffic

SpecUnfunded == InitUnfunded /\ [][Next]_vars

(* ---------------- an exhausted pool ---------------- *)

\* connections of the pool of the deployment under pool exhaustion: the pool of
\* db.js scaled down to fewer connections than modelled requests
SmallPool == 2

\* more concurrent transfers on shivansh's GOLD_COINS wallet than the pool has
\* connections
PoolTraffic ==
    [requests   |-> NumRequests,
     flows      |-> {"topup", "spend"},
     userIds    |-> {2},
     assetCodes |-> {"GOLD_COINS"},
     amounts    |-> {0, 200},
     firstAmounts |-> {},
     keys       |-> <<"k1", "k2", "k3">>,
     keyless    |-> FALSE,
     pool       |-> SmallPool]

InitPool == Deployed /\ traffic = PoolTraffic

\* pool.connect() rejects after connectionTimeoutMillis with every connection in
\* use: executeTransfer throws before its try block and errorHandler answers 500
ConnectTimeout(r) ==
    /\ pc[r] = "init"
    /\ r <= traffic.requests
    /\ \A o \in Requests : o < r => pc[o] # "init"
    /\ inUse >= traffic.pool
    /\ \E flow \in traffic.flows, userId \in traffic.userIds,
          assetCode \in traffic.assetCodes, amount \in clientAmounts(r),
          key \in clientKeys :
        LET body == [flow |-> flow, userId |-> userId, assetCode |-> assetCode,
                     amount |-> amount, idempotencyKey |-> key]
        IN  /\ validateTransactionBody(body) = ""
            /\ req' = [req EXCEPT ![r] = body]
    /\ resp' = [resp EXCEPT ![r] = errorHandler("ConnectionTimeout")]
    /\ pc' = [pc EXCEPT ![r] = "done"]
    /\ UNCHANGED <<wallets, ledger_entries, idempotency_keys, lockedBy, txn, traffic, clients>>

\* transfers on a pool that may run out of connections
NextPool ==
    \/ Next
    \/ \E r \in Requests : ConnectTimeout(r)

SpecPool == InitPool /\ [][NextPool]_vars

(* ---------------- scheduling ---------------- *)

\* the next await of executeTransfer for request r, once it has its connection:
\* the database answers every statement it can answer, with rows or with an error
Step(r) ==
    \/ IdempotentReplay(r)
    \/ IdempotencyCheck(r)
    \/ ResolveWallet(r)
    \/ ResolveTreasury(r)
    \/ LockRow(r)
    \/ CheckBalance(r)
    \/ UpdateSource(r)
    \/ UpdateDest(r)
    \/ InsertDebit(r)
    \/ InsertCredit(r)
    \/ InsertIdempotencyKey(r)
    \/ Commit(r)
    \/ StoreFailure(r)
    \/ Rollback(r)
    \/ RollbackFails(r)

\* more concurrent spends on shivansh's GOLD_COINS wallet than the pool has
\* connections
FairTraffic ==
    [requests   |-> NumRequests,
     flows      |-> {"spend"},
     userIds    |-> {2},
     assetCodes |-> {"GOLD_COINS"},
     amounts    |-> {0, 1000},
     firstAmounts |-> {},
     keys       |-> <<"k1", "k2", "k3">>,
     keyless    |-> FALSE,
     pool       |-> SmallPool]

InitFair == Deployed /\ traffic = FairTraffic

\* the event loop and the database keep serving every request that can go on
SpecFair == InitFair /\ [][NextPool]_vars /\ \A r \in Requests : WF_vars(Step(r))

(* ---------------- properties ---------------- *)

RECURSIVE ledgerSum(_, _, _)
\* sum of the amounts of the first n ledger entries of a type, on wallet w (0: any)
ledgerSum(n, w, entry_type) ==
    IF n = 0 THEN 0
    ELSE ledgerSum(n - 1, w, entry_type)
         + (IF /\ ledger_entries[n].entry_type = entry_type
               /\ (w = 0 \/ ledger_entries[n].wallet_id = w)
            THEN ledger_entries[n].amount ELSE 0)

RECURSIVE balanceSum(_, _)
\* sum of the balances of the wallets ids of table w
balanceSum(w, ids) ==
    IF ids = {} THEN 0
    ELSE LET id == Min(ids) IN w[id].balance + balanceSum(w, ids \ {id})

assetWallets(w, asset) == {id \in DOMAIN w : w[id].asset = asset}

\* request r has a committed transaction in the ledger
committed(r) == \E i \in DOMAIN ledger_entries : ledger_entries[i].transaction_id = uuidv4(r)

\* C1: the committed balance of every wallet is >= 0 in every reachable state, and
\* so is every balance a transaction has written and not yet committed (no UPDATE
\* ever trips the CHECK of the wallets table).
C1_BalanceNeverNegative ==
    /\ \A id \in DOMAIN wallets : balance_check(wallets[id].balance)
    /\ \A r \in Requests : \A id \in DOMAIN txn[r].w_wallets :
          balance_check(txn[r].w_wallets[id])

\* two spends of shivansh's whole GOLD_COINS balance: one committed and left 0, the
\* other was refused
C1_Witness ==
    \E r1, r2 \in Requests :
        /\ resp[r1].status = 201
        /\ resp[r2].error = "InsufficientBalance"
        /\ wallets[4].balance = 0

\* C2: every committed transfer leaves balance(source) + balance(dest) unchanged,
\* so the total of the wallet balances of each asset is always the seeded total.
C2_AssetTotalConserved ==
    \A asset \in {wallets[id].asset : id \in DOMAIN wallets} :
        balanceSum(wallets, assetWallets(wallets, asset))
          = balanceSum(SeedWallets, assetWallets(SeedWallets, asset))

\* C3: every transaction id of the committed ledger has exactly one DEBIT and one
\* CREDIT entry, of equal amount, and the DEBIT amounts sum to the CREDIT amounts.
C3_LedgerPaired ==
    /\ \A tid \in {ledger_entries[i].transaction_id : i \in DOMAIN ledger_entries} :
         LET of(t) == {i \in DOMAIN ledger_entries :
                          /\ ledger_entries[i].transaction_id = tid
                          /\ ledger_entries[i].entry_type = t}
         IN  /\ Cardinality(of("DEBIT")) = 1
             /\ Cardinality(of("CREDIT")) = 1
             /\ \A d \in of("DEBIT"), c \in of("CREDIT") :
                   ledger_entries[d].amount = ledger_entries[c].amount
    /\ ledgerSum(Len(ledger_entries), 0, "DEBIT") = ledgerSum(Len(ledger_entries), 0, "CREDIT")

\* two transfers are in the committed ledger
C3_Witness ==
    /\ Len(ledger_entries) = 4
    /\ ledger_entries[1].transaction_id # ledger_entries[3].transaction_id

\* C4: the stored balance of every wallet is the sum of the CREDIT amounts on the
\* wallet minus the sum of its DEBIT amounts, from the seeded database onwards.
C4_BalanceFromLedger ==
    \A id \in DOMAIN wallets :
        wallets[id].balance = ledgerSum(Len(ledger_entries), id, "CREDIT")
                              - ledgerSum(Len(ledger_entries), id, "DEBIT")

\* C5: of the requests that carry one idempotency key at most one has a transaction
\* in the ledger, and idempotency_keys has at most one row for the key.
C5_AtMostOncePerKey ==
    /\ \A r1, r2 \in Requests :
         (r1 # r2 /\ req[r1].idempotencyKey # ""
                  /\ req[r1].idempotencyKey = req[r2].idempotencyKey)
            => ~ (committed(r1) /\ committed(r2))
    /\ \A row1, row2 \in idempotency_keys : row1.key = row2.key => row1 = row2

\* two requests with one key raced on different wallets: one committed, the insert
\* of the other waited for it and was rejected
C5_Witness ==
    \E r1, r2 \in Requests :
        /\ req[r1].idempotencyKey = req[r2].idempotencyKey
        /\ req[r1].assetCode # req[r2].assetCode
        /\ committed(r1)
        /\ pc[r2] = "done" /\ resp[r2].error = "UniqueViolation"

\* the stored response of the key of request r, as a replay answers it
storedBody(r) ==
    {jsonb_parse(row.response_body) :
        row \in {x \in idempotency_keys : x.key = req[r].idempotencyKey}}

\* C6: a request whose idempotency check runs when its key is committed is answered
\* at once with status 200, idempotent = true and the body the first processing
\* returned with status 201, and the step changes no wallet, ledger entry or
\* idempotency record.
C6_ReplayReturnsFirstBody ==
    [][\A r \in Requests :
         (/\ pc[r] = "idem"
          /\ keyCommitted(idempotency_keys, req[r].idempotencyKey)
          /\ pc'[r] # "idem")
         => /\ pc'[r] = "done"
            /\ db' = db
            /\ \E f \in Requests \ {r} :
                 /\ req[f].idempotencyKey = req[r].idempotencyKey
                 /\ resp[f].status = 201 /\ ~ resp[f].idempotent
                 /\ resp'[r] = [status |-> 200, success |-> TRUE, idempotent |-> TRUE,
                                data |-> resp[f].data, error |-> ""]]_vars

\* a replay was answered with the first body although another committed transfer
\* has moved the balances away from the ones the body records
C6_Witness ==
    \E f, o, r \in Requests :
        /\ f # o /\ o # r /\ f # r
        /\ resp[f].status = 201 /\ resp[o].status = 201
        /\ resp[r].idempotent /\ resp[r].status = 200
        /\ resp[r].data = resp[f].data
        /\ wallets[resp[f].data[1].sourceWalletId].balance # resp[f].data[1].newSourceBalance
        /\ wallets[resp[f].data[1].destWalletId].balance # resp[f].data[1].newDestBalance

\* C7: a request that completes when a record for its key is already committed
\* returns the stored result with idempotent = true, in every interleaving; stated
\* for a request that repeats the body of the request that committed the record
\* and does not end on a store failure.
C7_CompletesWithStoredResult ==
    [][\A r \in Requests :
         (/\ pc[r] \notin {"init", "done"} /\ pc'[r] = "done"
          /\ keyCommitted(idempotency_keys, req[r].idempotencyKey)
          /\ \E f \in Requests \ {r} : req[f] = req[r] /\ resp[f].status = 201
          /\ resp'[r].error # "StoreFailure")
         => /\ resp'[r].idempotent
            /\ resp'[r].data \in {<<b>> : b \in storedBody(r)}]_vars

\* C8: a committed idempotency record stays, with the same status and body, in
\* every later state, and no second record for its key appears.
C8_RecordNeverChanges ==
    [][\A row \in idempotency_keys :
         /\ row \in idempotency_keys'
         /\ \A other \in idempotency_keys' : other.key = row.key => other = row]_vars

\* a record is committed and a later insert for its key was rejected
C8_Witness ==
    \E row \in idempotency_keys : \E r \in Requests :
        /\ pc[r] = "done"
        /\ req[r].idempotencyKey = row.key
        /\ resp[r].error = "UniqueViolation"
        /\ jsonb_parse(row.response_body).transactionId # uuidv4(r)

\* C9: the committed wallets, ledger and idempotency store change only in the step
\* in which a request commits and is answered 201; a request that fails leaves no
\* ledger entry and no idempotency record of its own.
C9_FailureLeavesNoTrace ==
    [][/\ db' # db =>
            \E r \in Requests :
                pc[r] = "commit" /\ pc'[r] = "done" /\ resp'[r].status = 201
       /\ \A r \in Requests :
            (pc'[r] = "done" /\ ~ resp'[r].success) =>
               /\ ~ committed(r)'
               /\ \A row \in idempotency_keys' :
                     jsonb_parse(row.response_body).transactionId # uuidv4(r)]_vars

\* a request failed at the idempotency insert, after both balance updates and both
\* ledger inserts, and only the other request's transfer is in the database
C9_Witness ==
    \E r \in Requests :
        /\ pc[r] = "done" /\ resp[r].error = "UniqueViolation"
        /\ ~ committed(r)
        /\ Len(ledger_entries) = 2
        /\ Cardinality(idempotency_keys) = 1

\* C10: the balance check fails with InsufficientBalance exactly when the balance
\* of the source wallet, as committed while the lock is held, is below the amount,
\* and then nothing is mutated; a transfer of exactly the source balance commits
\* and leaves the source wallet at 0.
C10_InsufficientExactly ==
    [][\A r \in Requests :
         /\ (pc[r] = "check" /\ pc'[r] # "check") =>
               /\ (pc'[r] = "rollback" /\ txn'[r].err = "InsufficientBalance")
                     <=> wallets[txn[r].sourceWalletId].balance < req[r].amount
               /\ db' = db
         /\ (/\ pc[r] = "commit" /\ pc'[r] = "done"
             /\ wallets[txn[r].sourceWalletId].balance = req[r].amount)
               => wallets'[txn[r].sourceWalletId].balance = 0]_vars

(* ---------------- waiting ---------------- *)

\* request r is blocked by request o: its SELECT ... FOR UPDATE wants a row whose
\* lock o holds, or its INSERT into idempotency_keys meets the uncommitted row of o
waitsFor(r, o) ==
    /\ o # r
    /\ \/ /\ pc[r] = "lock"
          /\ LET w == rowWanted(lockOrder(wallets, txn[r].sourceWalletId,
                                          txn[r].destWalletId),
                                txn[r].lockedWallets)
             IN  w # 0 /\ lockedBy[w] = o
       \/ /\ pc[r] = "insertKey"
          /\ \E row \in txn[o].w_idem : row.key = req[r].idempotencyKey

\* C11: every transfer takes its wallet locks in ascending wallet-id order, and in
\* no reachable state is there a group of transfers each of which waits for a lock
\* held by another transfer of the group.
C11_NoDeadlock ==
    /\ \A r \in Requests : \A held \in DOMAIN txn[r].lockedWallets :
          \A id \in {txn[r].sourceWalletId, txn[r].destWalletId} :
              id < held => id \in DOMAIN txn[r].lockedWallets
    /\ \A group \in SUBSET Requests :
          group # {} => \E r \in group : \A o \in group : ~ waitsFor(r, o)

\* a spend waits for the treasury row that a top-up of the same wallet holds: the
\* two transfers have opposite source and destination
C11_Witness ==
    \E r, o \in Requests :
        /\ waitsFor(r, o)
        /\ pc[r] = "lock" /\ pc[o] = "lock"
        /\ txn[r].sourceWalletId = txn[o].destWalletId
        /\ txn[r].destWalletId = txn[o].sourceWalletId
        /\ txn[r].sourceWalletId # txn[r].destWalletId

(* ---------------- serial execution ---------------- *)

\* executeTransfer of request r run alone on the committed database, from BEGIN to
\* COMMIT or ROLLBACK: its outcome and the database it leaves
executeTransferAlone(r) ==
    LET body == req[r]
        users == resolveWalletId(wallets, body.userId, body.assetCode)
        treasuries == resolveTreasuryWalletId(wallets, body.assetCode)
        unchanged(outcome) ==
            [outcome |-> outcome, wallets |-> wallets,
             ledger_entries |-> ledger_entries, idempotency_keys |-> idempotency_keys]
    IN  IF keyCommitted(idempotency_keys, body.idempotencyKey) THEN unchanged("replay")
        ELSE IF users = {} THEN unchanged("WalletNotFound")
        ELSE IF treasuries = {} THEN unchanged("TreasuryMissing")
        ELSE LET uw == CHOOSE id \in users : TRUE
                 tw == CHOOSE id \in treasuries : TRUE
                 src == sourceWalletId(body.flow, uw, tw)
                 dst == destWalletId(body.flow, uw, tw)
                 newSource == wallets[src].balance - body.amount
                 newDest == wallets[dst].balance + body.amount
                 result == [transactionId    |-> uuidv4(r),
                            sourceWalletId   |-> src,
                            destWalletId     |-> dst,
                            amount           |-> body.amount,
                            newSourceBalance |-> newSource,
                            newDestBalance   |-> newDest,
                            description      |-> description(body)]
             IN  IF insufficientBalance(wallets[src].balance, body.amount)
                 THEN unchanged("InsufficientBalance")
                 ELSE [outcome |-> "success",
                       wallets |-> commitWallets(wallets,
                           updateBalance(updateBalance(<<>>, src, newSource), dst, newDest)),
                       ledger_entries |-> ledger_entries \o
                           << ledgerRow(r, src, "DEBIT", newSource),
                              ledgerRow(r, dst, "CREDIT", newDest) >>,
                       idempotency_keys |-> idempotency_keys \cup
                           {[key |-> body.idempotencyKey, response_code |-> 200,
                             response_body |-> to_jsonb(JSON_stringify(result))]}]

\* the step in which the outcome of request r is decided while it holds its locks:
\* its throw of a client error, or its COMMIT
serialStep(r) ==
    /\ (pc[r] \in {"check", "insertKey"} /\ pc'[r] = "rollback"
          /\ txn'[r].err # "StoreFailure")
          => /\ executeTransferAlone(r).outcome = txn'[r].err
             /\ db' = db
    /\ (pc[r] = "commit" /\ pc'[r] = "done")
          => /\ executeTransferAlone(r).outcome = "success"
             /\ wallets' = executeTransferAlone(r).wallets
             /\ ledger_entries' = executeTransferAlone(r).ledger_entries
             /\ idempotency_keys' = executeTransferAlone(r).idempotency_keys

\* C12: in every interleaving of concurrent transfers, the balances, the ledger and
\* the outcome of every request (success or InsufficientBalance) are those of
\* running the transfers one at a time in the order they took their locks: each
\* request's outcome and writes are those of executeTransfer run alone on the
\* database committed when the request, holding its locks, decides.
C12_SerialInLockOrder ==
    [][\A r \in Requests : serialStep(r)]_vars

\* the same for requests whose idempotency key no other request carries
C12_SerialWhenKeysDiffer ==
    [][\A r \in Requests :
         (\A o \in Requests \ {r} : req[o].idempotencyKey # req[r].idempotencyKey)
            => serialStep(r)]_vars

(* ---------------- concurrent spends on one wallet ---------------- *)

\* the requests made so far
accepted == {r \in Requests : req[r] # NoReq}

\* all the requests made so far are answered and were spends of one amount on wallet
\* id, with pairwise distinct keys, none of them cut short by a failure of the store
spendsOnly(id) ==
    /\ accepted # {}
    /\ \A r \in accepted :
          /\ pc[r] = "done"
          /\ req[r].flow = "spend"
          /\ req[r].userId = SeedWallets[id].user_id
          /\ req[r].assetCode = SeedWallets[id].asset
          /\ resp[r].error # "StoreFailure"
    /\ \A r, o \in accepted :
          /\ req[r].amount = req[o].amount
          /\ r # o => req[r].idempotencyKey # req[o].idempotencyKey

\* min(N, floor(B / a)) of the N spends succeeded, the others were refused for
\* the balance, and wallet id holds B - a * succeeded
spendsOutcome(id) ==
    LET N == Cardinality(accepted)
        a == req[CHOOSE r \in accepted : TRUE].amount
        B == SeedWallets[id].balance
        succeeded == Cardinality({r \in accepted : resp[r].status = 201})
    IN  /\ succeeded = Min({N, B \div a})
        /\ \A r \in accepted :
              resp[r].status # 201 =>
                 resp[r].status = 400 /\ resp[r].error = "InsufficientBalance"
        /\ wallets[id].balance = B - a * succeeded
        /\ wallets[id].balance >= 0

\* C13: when N concurrent Spend(a) requests with pairwise distinct keys run against
\* a wallet holding B and nothing else touches it, exactly min(N, floor(B / a))
\* succeed, the rest fail with InsufficientBalance, and the final balance is
\* B - a * succeeded, never negative.
C13_ConcurrentSpends ==
    \A id \in WalletIds : spendsOnly(id) => spendsOutcome(id)

\* the same for the wallets of the users other than the treasury
C13_SpendsOfUsers ==
    \A id \in WalletIds :
        (SeedUserType[SeedWallets[id].user_id] # "system" /\ spendsOnly(id))
           => spendsOutcome(id)

\* three spends of 200 on shivansh's 500 DIAMONDS: two were served, one refused
C13_SpendsOfUsersWitness ==
    \E id \in WalletIds :
        /\ spendsOnly(id)
        /\ Cardinality(accepted) = NumRequests
        /\ Cardinality({r \in accepted : resp[r].status = 201}) = 2
        /\ Cardinality({r \in accepted : resp[r].error = "InsufficientBalance"}) = 1

(* ---------------- reads ---------------- *)

\* the transfers answered 201 so far: their response bodies
committedBodies == {resp[o].data[1] : o \in {q \in Requests : resp[q].status = 201}}

\* the balances the committed transfers and the seed have given the wallet of a
\* user and an asset
committedBalances(userId, assetCode) ==
    LET ids == {id \in WalletIds : /\ SeedWallets[id].user_id = userId
                                   /\ SeedWallets[id].asset = assetCode}
    IN  {SeedWallets[id].balance : id \in ids}
          \cup {b.newSourceBalance : b \in {c \in committedBodies : c.sourceWalletId \in ids}}
          \cup {b.newDestBalance : b \in {c \in committedBodies : c.destWalletId \in ids}}

\* request r is answered in this step by a read route
readAnswered(r, flow) ==
    pc[r] = "init" /\ pc'[r] = "done" /\ req'[r].flow = flow /\ resp'[r].status = 200

\* C14: a read that runs while transfers are in flight returns only balances and
\* ledger entries of committed transfers (or of the seed), never a balance or an
\* entry written by a transfer that has not committed or that rolls back.
C14_ReadsSeeCommitted ==
    [][\A r \in Requests :
         /\ readAnswered(r, "balance") =>
               LET rows == IF req'[r].assetCode = "" THEN resp'[r].data[1]
                           ELSE {resp'[r].data[1]}
               IN  \A row \in rows :
                      row.balance \in committedBalances(req'[r].userId, row.asset_code)
         /\ readAnswered(r, "transactions") =>
               \A row \in resp'[r].data[1] :
                  \E b \in committedBodies :
                     /\ b.transactionId = row.transaction_id
                     /\ b.amount = row.amount
                     /\ row.balance_after \in {b.newSourceBalance, b.newDestBalance}]_vars

\* while a later spend had written 600 and not committed, a read of the balance
\* returned the 800 of the committed spend, or a read of the history its entries
C14_Witness ==
    \E r, o \in Requests :
        /\ o < r
        /\ pc[o] \in {"updateDest", "insertDebit", "insertCredit", "insertKey", "commit"}
        /\ \E id \in DOMAIN txn[o].w_wallets : txn[o].w_wallets[id] = 600
        /\ resp[r].status = 200
        /\ \/ /\ req[r].flow = "balance" /\ req[r].assetCode # ""
              /\ resp[r].data[1].balance = 800
           \/ /\ req[r].flow = "transactions"
              /\ \E row \in resp[r].data[1] : row.balance_after = 800

(* ---------------- wallet resolution ---------------- *)

\* request r has passed the idempotency lookup with a key that was not stored
freshKey(r) ==
    /\ req[r].flow \in {"topup", "bonus", "spend"}
    /\ pc[r] \notin {"init", "idem"}
    /\ ~ resp[r].idempotent

\* request r took no lock and wrote nothing
untouched(r) ==
    /\ txn[r].lockedWallets = <<>>
    /\ \A w \in WalletIds : lockedBy[w] # r
    /\ txn[r].w_wallets = <<>> /\ txn[r].w_ledger = <<>> /\ txn[r].w_idem = {}
    /\ ~ committed(r)

\* request r has thrown err before any lock, and is answered with it (or with the
\* error of its ROLLBACK, had the store failed then)
refused(r, err, status) ==
    /\ untouched(r)
    /\ \/ pc[r] = "rollback" /\ txn[r].err = err
       \/ /\ pc[r] = "done"
          /\ ~ resp[r].success
          /\ \/ resp[r].error = err /\ resp[r].status = status
             \/ resp[r].error = "StoreFailure"

\* C15: for a request with a fresh key, no wallet of the owner for the asset fails
\* the transfer with WalletNotFound (404); otherwise no system-owned wallet for the
\* asset fails it with TreasuryMissing (500); no lock is taken and nothing is
\* written in either case, and with both missing WalletNotFound is the answer.
C15_ResolutionErrors ==
    \A r \in Requests :
        LET owner == \E id \in DOMAIN wallets :
                        /\ wallets[id].user_id = req[r].userId
                        /\ wallets[id].asset = req[r].assetCode
            treasury == \E id \in DOMAIN wallets :
                        /\ wallets[id].user_id \in DOMAIN SeedUserType
                        /\ SeedUserType[wallets[id].user_id] = "system"
                        /\ wallets[id].asset = req[r].assetCode
        IN  freshKey(r) =>
              /\ pc[r] \in {"resolveUser", "resolveTreasury"} => untouched(r)
              /\ (~ owner /\ pc[r] # "resolveUser") => refused(r, "WalletNotFound", 404)
              /\ (owner /\ ~ treasury /\ pc[r] \notin {"resolveUser", "resolveTreasury"})
                    => refused(r, "TreasuryMissing", 500)

\* an unknown user's request on the asset without treasury wallet was answered 404,
\* shivansh's request on that asset 500
C15_Witness ==
    \E r, o \in Requests :
        /\ req[r].userId = 4 /\ req[r].assetCode = "LOYALTY_POINTS"
        /\ resp[r].status = 404 /\ resp[r].error = "WalletNotFound"
        /\ req[o].userId = 2 /\ req[o].assetCode = "LOYALTY_POINTS"
        /\ resp[o].status = 500 /\ resp[o].error = "TreasuryMissing"

(* ---------------- direction of the flows ---------------- *)

\* the COMMIT step of request r moves amount from the wallet the flow debits to the
\* wallet it credits: the treasury pays a top-up or a bonus, the owner pays a spend
movesAsFlow(r) ==
    LET uw == CHOOSE id \in DOMAIN wallets :
                 /\ wallets[id].user_id = req[r].userId
                 /\ wallets[id].asset = req[r].assetCode
        tw == CHOOSE id \in DOMAIN wallets :
                 /\ SeedUserType[wallets[id].user_id] = "system"
                 /\ wallets[id].asset = req[r].assetCode
        src == IF req[r].flow \in {"topup", "bonus"} THEN tw ELSE uw
        dst == IF req[r].flow \in {"topup", "bonus"} THEN uw ELSE tw
        body == resp'[r].data[1]
        added == SubSeq(ledger_entries', Len(ledger_entries) + 1, Len(ledger_entries'))
    IN  /\ wallets'[src].balance = wallets[src].balance - req[r].amount
        /\ wallets'[dst].balance = wallets[dst].balance + req[r].amount
        /\ Len(added) = 2
        /\ \E i, j \in 1..2 :
              /\ added[i].entry_type = "DEBIT" /\ added[i].wallet_id = src
              /\ added[j].entry_type = "CREDIT" /\ added[j].wallet_id = dst
              /\ added[i].amount = req[r].amount /\ added[j].amount = req[r].amount
        /\ body.sourceWalletId = src
        /\ body.destWalletId = dst

\* C16: every committed top-up or bonus debits the treasury wallet of the asset and
\* credits the owner's wallet by amount, every committed spend debits the owner's
\* wallet and credits the treasury wallet by amount; the DEBIT entry is on the
\* source wallet, the CREDIT entry on the destination, and the response names them.
C16_Directions ==
    [][\A r \in Requests : (pc[r] = "commit" /\ pc'[r] = "done") => movesAsFlow(r)]_vars

\* the same for the owners other than the treasury
C16_DirectionsOfUsers ==
    [][\A r \in Requests :
         (pc[r] = "commit" /\ pc'[r] = "done" /\ SeedUserType[req[r].userId] # "system")
            => movesAsFlow(r)]_vars

(* ---------------- order of the steps ---------------- *)

\* C17: within one executeTransfer the steps happen in the order idempotency
\* lookup, owner resolution, treasury resolution, lock of both wallets, balance
\* check, source write, destination write, DEBIT append, CREDIT append, idempotency
\* insert, commit: what a transaction has done so far is always a prefix of that
\* list, both balance writes precede any ledger append, and no balance is written
\* before both locks are held.
C17_StepOrder ==
    \A r \in Requests :
        LET t == txn[r]
            both == {t.sourceWalletId, t.destWalletId}
        IN  /\ t.userWalletId # 0 => pc[r] \notin {"init", "idem"}
            /\ t.treasuryWalletId # 0 => t.userWalletId # 0
            /\ t.lockedWallets # <<>> => t.treasuryWalletId # 0
            /\ t.w_wallets # <<>> =>
                  /\ both \subseteq DOMAIN t.lockedWallets
                  /\ \A id \in both : lockedBy[id] = r
                  /\ t.lockedWallets[t.sourceWalletId] >= req[r].amount
                  /\ t.sourceWalletId \in DOMAIN t.w_wallets
            /\ t.w_ledger # <<>> =>
                  /\ both \subseteq DOMAIN t.w_wallets
                  /\ t.w_ledger[1].entry_type = "DEBIT"
                  /\ Len(t.w_ledger) = 2 => t.w_ledger[2].entry_type = "CREDIT"
            /\ t.w_idem # {} => Len(t.w_ledger) = 2
            /\ committed(r) =>
                  /\ pc[r] = "done"
                  /\ \E row \in idempotency_keys :
                        jsonb_parse(row.response_body).transactionId = uuidv4(r)

\* a top-up or a spend of a user has done every step but the commit
C17_Witness ==
    \E r \in Requests :
        /\ pc[r] = "commit"
        /\ txn[r].sourceWalletId # txn[r].destWalletId
        /\ DOMAIN txn[r].w_wallets = {txn[r].sourceWalletId, txn[r].destWalletId}
        /\ Len(txn[r].w_ledger) = 2
        /\ txn[r].w_idem # {}

(* ---------------- balance_after ---------------- *)

\* the ledger entries the COMMIT step of request r publishes carry, as
\* balance_after, the balances their wallets have right after the commit, and the
\* response returns the same two values
balanceAfterIsBalance(r) ==
    LET added == SubSeq(ledger_entries', Len(ledger_entries) + 1, Len(ledger_entries'))
        body == resp'[r].data[1]
    IN  \A i \in DOMAIN added :
           /\ added[i].balance_after = wallets'[added[i].wallet_id].balance
           /\ added[i].entry_type = "DEBIT" =>
                 /\ added[i].wallet_id = body.sourceWalletId
                 /\ added[i].balance_after = body.newSourceBalance
           /\ added[i].entry_type = "CREDIT" =>
                 /\ added[i].wallet_id = body.destWalletId
                 /\ added[i].balance_after = body.newDestBalance

\* C18: for every committed transfer the balance_after of the DEBIT entry is the
\* source wallet's balance right after the commit and the balance_after of the
\* CREDIT entry is the destination wallet's balance right after the commit, and the
\* response returns them as newSourceBalance and newDestBalance.
C18_BalanceAfter ==
    [][\A r \in Requests :
         (pc[r] = "commit" /\ pc'[r] = "done") => balanceAfterIsBalance(r)]_vars

\* the same for the owners other than the treasury
C18_BalanceAfterOfUsers ==
    [][\A r \in Requests :
         (pc[r] = "commit" /\ pc'[r] = "done" /\ SeedUserType[req[r].userId] # "system")
            => balanceAfterIsBalance(r)]_vars

(* ---------------- lost updates ---------------- *)

\* wallet id holds its seeded balance plus the committed credits minus the
\* committed debits on it
allUpdatesKept(id) ==
    wallets[id].balance =
        SeedWallets[id].balance
          + ledgerSum(Len(ledger_entries), id, "CREDIT")
          - ledgerSum(Len(ledger_entries), id, "DEBIT")

\* C19: no update of a balance is lost: after any set of concurrent transfers the
\* balance of every wallet is its balance before them plus the committed credits
\* minus the committed debits on it.
C19_NoLostUpdate == \A id \in WalletIds : allUpdatesKept(id)

\* the same as long as no request names the treasury as the owner
C19_NoLostUpdateOfUsers ==
    (\A r \in accepted :
        req[r].userId \notin {u \in DOMAIN SeedUserType : SeedUserType[u] = "system"})
       => \A id \in WalletIds : allUpdatesKept(id)

(* ---------------- isolation of the transfers ---------------- *)

\* the wallets request r names as source and destination, once resolved
walletSet(r) == {txn[r].sourceWalletId, txn[r].destWalletId} \ {0}

\* at most one open transaction holds the lock of a wallet, and the balance a
\* transaction has read under its lock is still the committed one: a later
\* transfer reads a shared wallet only after the earlier one committed or rolled back
serialized ==
    /\ \A w \in WalletIds :
          Cardinality({r \in Requests : w \in DOMAIN txn[r].lockedWallets}) <= 1
    /\ \A r \in Requests : \A w \in DOMAIN txn[r].lockedWallets :
          /\ lockedBy[w] = r
          /\ txn[r].lockedWallets[w] = wallets[w].balance

\* C20 as stated: two transfers whose wallet sets are disjoint never wait for each
\* other; transfers that share a wallet are serialized on it, and at most one
\* in-flight transfer holds the lock of a wallet.
C20_DisjointNeverWait ==
    /\ \A r, o \in Requests :
          waitsFor(r, o) => walletSet(r) \cap walletSet(o) # {}
    /\ serialized

\* C20, amended: two transfers whose wallet sets are disjoint and whose idempotency
\* keys differ never wait for each other (a transfer waits for another only on a
\* wallet both name, or at its idempotency insert for the uncommitted record of the
\* same key); transfers that share a wallet are serialized on it, and at most one
\* in-flight transfer holds the lock of a wallet.
C20_WaitOnlyOnSharedWalletOrKey ==
    /\ \A r, o \in Requests :
          waitsFor(r, o) =>
             \/ walletSet(r) \cap walletSet(o) # {}
             \/ req[r].idempotencyKey = req[o].idempotencyKey
    /\ \A r, o \in Requests :
          (waitsFor(r, o) /\ walletSet(r) \cap walletSet(o) = {}) => pc[r] = "insertKey"
    /\ serialized

\* a GOLD_COINS and a DIAMONDS transfer with different keys both hold their two
\* locks and have both written: neither waited for the other
C20_Witness ==
    \E r, o \in Requests :
        /\ r # o
        /\ walletSet(r) \cap walletSet(o) = {}
        /\ req[r].idempotencyKey # req[o].idempotencyKey
        /\ \A q \in {r, o} :
              /\ pc[q] \in {"insertDebit", "insertCredit", "insertKey", "commit"}
              /\ Cardinality(DOMAIN txn[q].lockedWallets) = 2
              /\ walletSet(q) = DOMAIN txn[q].lockedWallets

(* ---------------- the connection pool ---------------- *)

\* the transfers with an open transaction
openTransactions == {r \in Requests : pc[r] \notin {"init", "done"}}

\* C21: every connection executeTransfer acquires is released exactly once on
\* every exit path (replay, commit, any thrown error, a failing ROLLBACK) and not
\* before; the open transfer transactions never outnumber the connections of the
\* pool; a request that gets no connection waits or is answered with an error, and
\* has changed nothing.
C21_ConnectionReleasedOnce ==
    /\ Cardinality(openTransactions) <= traffic.pool
    /\ \A r \in Requests :
          /\ r \in openTransactions =>
                clients[r].connected = 1 /\ clients[r].released = 0
          /\ pc[r] = "done" => clients[r].released = clients[r].connected
          /\ clients[r].connected <= 1
          /\ clients[r].connected = 0 =>
                /\ clients[r].released = 0
                /\ txn[r] = NoTxn
                /\ \A w \in WalletIds : lockedBy[w] # r
                /\ ~ committed(r)
                /\ pc[r] = "done" => ~ resp[r].success /\ resp[r].status \in {400, 500}

\* with both connections of the pool held by open transfers a third request was
\* answered with the connect timeout; then the ROLLBACK of one of the two failed
\* and its connection was released all the same, the other is still open
C21_Witness ==
    \E a, b, c \in Requests :
        /\ resp[a].error = "StoreFailure" /\ clients[a].released = 1
        /\ b \in openTransactions
        /\ resp[c].error = "ConnectionTimeout" /\ clients[c].connected = 0

(* ---------------- termination ---------------- *)

\* C22: under fair scheduling every started transfer eventually ends with a commit
\* or a rollback, holding no lock and no connection, and a transfer waiting for a
\* wallet lock eventually gets it, also with more concurrent transfers than the
\* pool has connections.
C22_EveryTransferTerminates ==
    \A r \in Requests :
        /\ (pc[r] \notin {"init", "done"}) ~>
              (/\ pc[r] = "done"
               /\ \A w \in WalletIds : lockedBy[w] # r
               /\ clients[r].released = 1)
        /\ (pc[r] = "lock") ~> (pc[r] = "check")

\* a transfer waits for a wallet lock while every connection of the pool is in use
C22_Witness ==
    \E r, o \in Requests :
        /\ pc[r] = "lock"
        /\ waitsFor(r, o)
        /\ Cardinality({q \in Requests : pc[q] \notin {"init", "done"}}) = traffic.pool
        /\ \E q \in Requests : pc[q] = "init"

(* ---------------- the error the caller sees ---------------- *)

\* C23: when a step of executeTransfer fails, the caller is answered with the error
\* of the step that failed first (WalletNotFound 404, TreasuryMissing 500,
\* InsufficientBalance 400, or the failure of the store, 500), also when the
\* ROLLBACK of the error handler fails; never with another error, never with a
\* success.
C23_OriginatingErrorSurfaced ==
    [][\A r \in Requests :
         (pc[r] = "rollback" /\ pc'[r] = "done") =>
            /\ ~ resp'[r].success
            /\ resp'[r].error = txn[r].err
            /\ resp'[r].status =
                  (CASE txn[r].err \in {"WalletNotFound", "WalletsNotFound"} -> 404
                     [] txn[r].err = "InsufficientBalance" -> 400
                     [] OTHER -> 500)]_vars

(* ---------------- frame of a transfer ---------------- *)

\* C24: a transfer only appends to the ledger and only changes the balances of its
\* source and destination wallets: every committed ledger entry stays, unchanged
\* and in place, in every later state; a wallet other than the two of the
\* transfer that commits keeps its balance; no wallet is created, deleted or moved
\* to another owner or asset.
C24_Frame ==
    [][/\ Len(ledger_entries') >= Len(ledger_entries)
       /\ SubSeq(ledger_entries', 1, Len(ledger_entries)) = ledger_entries
       /\ DOMAIN wallets' = DOMAIN wallets
       /\ \A id \in DOMAIN wallets :
             /\ wallets'[id].user_id = wallets[id].user_id
             /\ wallets'[id].asset = wallets[id].asset
             /\ wallets'[id].balance # wallets[id].balance =>
                   \E r \in Requests :
                      /\ pc[r] = "commit" /\ pc'[r] = "done"
                      /\ id \in {resp'[r].data[1].sourceWalletId,
                                 resp'[r].data[1].destWalletId}
                      /\ wallets[id].asset = req[r].assetCode
                      /\ Len(ledger_entries') = Len(ledger_entries) + 2]_vars

\* two transfers have committed, on GOLD_COINS and on DIAMONDS: the ledger holds
\* the entries of the first below those of the second, and the wallets of
\* LOYALTY_POINTS and of lokendra hold their seeded balances
C24_Witness ==
    /\ Len(ledger_entries) = 4
    /\ wallets[ledger_entries[1].wallet_id].asset # wallets[ledger_entries[3].wallet_id].asset
    /\ \E id \in WalletIds : wallets[id].balance # SeedWallets[id].balance
    /\ \A id \in {3, 6, 7, 8, 9} : wallets[id].balance = SeedWallets[id].balance

(* ---------------- idempotency records and ledger transactions ---------------- *)

\* the transaction id the stored body of an idempotency record names
recordedTransaction(row) == jsonb_parse(row.response_body).transactionId

\* C25: in every committed state the idempotency records and the ledger
\* transactions correspond one to one: the body of every record names a
\* transaction id that has its DEBIT and its CREDIT entry in the ledger, and every
\* transaction id of the ledger is named by exactly one record.
C25_RecordsMatchLedger ==
    /\ \A row \in idempotency_keys :
          \A t \in {"DEBIT", "CREDIT"} :
             Cardinality({i \in DOMAIN ledger_entries :
                             /\ ledger_entries[i].transaction_id = recordedTransaction(row)
                             /\ ledger_entries[i].entry_type = t}) = 1
    /\ \A i \in DOMAIN ledger_entries :
          Cardinality({row \in idempotency_keys :
                          recordedTransaction(row) = ledger_entries[i].transaction_id}) = 1

\* two transfers are committed, each with its record, and the two records name
\* different transactions
C25_Witness ==
    /\ Cardinality(idempotency_keys) = 2
    /\ Cardinality({recordedTransaction(row) : row \in idempotency_keys}) = 2
    /\ Len(ledger_entries) = 4

(* ---------------- failures are not cached ---------------- *)

\* every idempotency record holds the result of a request answered 201, no record
\* names the transaction of a failed request, and what a replay returns is such a
\* result
onlySuccessStored ==
    /\ \A row \in idempotency_keys :
          \E o \in Requests :
             /\ resp[o].status = 201
             /\ resp[o].data[1] = jsonb_parse(row.response_body)
             /\ req[o].idempotencyKey = row.key
    /\ \A r \in Requests :
          /\ (pc[r] = "done" /\ ~ resp[r].success) =>
                \A row \in idempotency_keys : recordedTransaction(row) # uuidv4(r)
          /\ resp[r].idempotent =>
                /\ resp[r].success
                /\ \E o \in Requests :
                      resp[o].status = 201 /\ resp[o].data[1] = resp[r].data[1]

\* C26: a transfer that fails writes no idempotency record, so its outcome is not
\* cached: a later request with the same key finds no record at its lookup and is
\* processed as a new request, against the balances committed when it holds its
\* locks; only successful results are stored and replayed.
C26_FailureNotCached ==
    [][/\ onlySuccessStored'
       /\ \A r \in Requests :
             /\ (pc[r] = "idem" /\ pc'[r] # "idem") =>
                   IF \E row \in idempotency_keys : row.key = req[r].idempotencyKey
                   THEN pc'[r] = "done" /\ resp'[r].idempotent
                   ELSE pc'[r] = "resolveUser" /\ db' = db
             /\ (pc[r] = "check" /\ pc'[r] = "updateSource") =>
                   wallets[txn[r].sourceWalletId].balance >= req[r].amount]_vars

\* a spend of 1000 on shivansh's 500 DIAMONDS was refused, a top-up of 1000
\* committed, and the same spend sent again with the same key committed
C26_Witness ==
    \E r1, r2, r3 \in Requests :
        /\ r1 < r2 /\ r2 < r3
        /\ req[r1] = req[r3]
        /\ req[r1].flow = "spend"
        /\ resp[r1].status = 400 /\ resp[r1].error = "InsufficientBalance"
        /\ req[r2].flow = "topup" /\ resp[r2].status = 201
        /\ resp[r3].status = 201
        /\ \E row \in idempotency_keys :
              row.key = req[r1].idempotencyKey /\ recordedTransaction(row) = uuidv4(r3)

(* ---------------- the lookup matches the key alone ---------------- *)

\* C27: the idempotency lookup matches on the key alone: a request whose key has a
\* stored record is answered with the stored result and performs no transfer,
\* whatever its flow, owner, asset and amount, also when its owner or asset has no
\* wallet: the lookup precedes wallet resolution, so no WalletNotFound is raised.
C27_LookupByKeyAlone ==
    [][\A r \in Requests :
         \A row \in idempotency_keys :
            (pc[r] = "idem" /\ pc'[r] # "idem" /\ row.key = req[r].idempotencyKey)
               => /\ pc'[r] = "done"
                  /\ resp'[r].status = 200 /\ resp'[r].success /\ resp'[r].idempotent
                  /\ resp'[r].error = ""
                  /\ resp'[r].data = <<jsonb_parse(row.response_body)>>
                  /\ recordedTransaction(row) # uuidv4(r)
                  /\ db' = db
                  /\ lockedBy' = lockedBy
                  /\ txn'[r] = NoTxn]_vars

\* a request of a user without any wallet, with another flow, asset and amount
\* than the transfer stored under its key, was answered with that stored result
C27_Witness ==
    \E r, f \in Requests :
        /\ resp[f].status = 201
        /\ req[r].idempotencyKey = req[f].idempotencyKey
        /\ req[r].userId = 4
        /\ req[r].flow # req[f].flow
        /\ req[r].assetCode # req[f].assetCode
        /\ req[r].amount # req[f].amount
        /\ resp[r].status = 200 /\ resp[r].idempotent
        /\ resp[r].data = resp[f].data

====
